---- MODULE Spec2Model ----
(***************************************************************************)
(* Model of apps/knowledge-base/knowledge_bridge.py: one process run of    *)
(* the knowledge-base bridge.  main() parses the arguments, constructs the *)
(* KnowledgeBridge, dispatches one of search / stats / health (from the    *)
(* flags or from a JSON document on standard input) and prints the         *)
(* resulting envelope.  The backend (FSHDPDFProcessor) is a collaborator   *)
(* whose outcome is a nondeterministic choice.                             *)
(***************************************************************************)
EXTENDS Integers, Sequences, FiniteSets, TLC

VARIABLES
    args,          \* the argparse namespace of the run
    stdinData,     \* what standard input holds
    pc,            \* position of main()
    ctorCalls,     \* how many times KnowledgeBridge() was entered
    backendCalls,  \* backend operations invoked, with their outcome
    result,        \* the local variable `result` of main()
    stdout,        \* what was written to standard output, in order
    stderr,        \* what was written to standard error, in order
    exitStatus,    \* the exit status, -1 while the process runs
    crashed        \* the uncaught exception that ended the process, or NoExc

vars == <<args, stdinData, pc, ctorCalls, backendCalls, result, stdout, stderr,
          exitStatus, crashed>>

-----------------------------------------------------------------------------
(* Bounds of the model *)

MaxDocs == 2        \* longest result set the backend returns
MaxN == 2           \* largest --n_results given on the command line

(* Program constants *)

DefaultNResults == 3

-----------------------------------------------------------------------------
(* Values *)

Null == "None"                 \* Python None
JsonNull == "null"             \* JSON null
Absent == "<absent>"           \* an attribute argparse did not receive
NoExc == "<no exception>"
Running == 0 - 1

EmptyMap == [k \in {} |-> Null]

Min(a, b) == IF a < b THEN a ELSE b

\* str(i) as an f-string renders it
IntToStr(i) ==
    CASE i = 0 -> "0" [] i = 1 -> "1" [] i = 2 -> "2" [] i = 3 -> "3"
      [] i = 4 -> "4" [] i = 5 -> "5" [] i = 6 -> "6" [] i = 7 -> "7"
      [] i = 8 -> "8" [] OTHER -> "9"

\* dict.get(key, default)
Get(d, key, default) == IF key \in DOMAIN d THEN d[key] ELSE default

Commands == {"search", "stats", "health"}
Questions == {"q1", "q2"}
Languages == {Null, "zh"}
Contents == {"doc_a", "doc_b"}

-----------------------------------------------------------------------------
(* The backend's column-oriented search result.  Each of the four entries   *)
(* of the mapping is missing (no such key), None, or a sequence nested one  *)
(* level (outer index 0 is the query's result set).                         *)

MissingKey == [kind |-> "missing", outer |-> <<>>]
NoneValue == [kind |-> "none", outer |-> <<>>]
Nested(outer) == [kind |-> "seq", outer |-> outer]

\* a column's result set of length k; the entry at 0-based index j is <prefix>j
TokenRow(prefix, k) == [j \in 1..k |-> prefix \o IntToStr(j - 1)]

ColumnChoices(prefix) ==
    {MissingKey, NoneValue, Nested(<<>>)}
        \cup {Nested(<<TokenRow(prefix, k)>>) : k \in 0..MaxDocs}

\* a metadata result set of length k: a chunk stored without metadata has None
MetadataRows(k) ==
    {[j \in 1..k |-> IF j \in S THEN Null ELSE "meta_" \o IntToStr(j - 1)] :
        S \in SUBSET (1..k)}

MetadataChoices ==
    {MissingKey, NoneValue, Nested(<<>>)}
        \cup {Nested(<<row>>) : row \in UNION {MetadataRows(k) : k \in 0..MaxDocs}}

\* The backend returns at most k documents for a usable k; the bridge passes
\* an unusable k through and the backend's answer is then unconstrained.
DocLimit(n_results) ==
    IF n_results >= 1 THEN Min(n_results, MaxDocs) ELSE MaxDocs

DocumentChoices(n_results) ==
    {MissingKey, NoneValue, Nested(<<>>)}
        \cup {Nested(<<row>>) :
                row \in UNION {[1..k -> Contents] : k \in 0..DocLimit(n_results)}}

SearchOutcomes(n_results) ==
    {[raised |-> TRUE, msg |-> "search failed", documents |-> NoneValue,
      ids |-> NoneValue, metadatas |-> NoneValue, distances |-> NoneValue]}
    \cup
    [raised : {FALSE}, msg : {NoExc},
     documents : DocumentChoices(n_results),
     ids : ColumnChoices("id_"),
     metadatas : MetadataChoices,
     distances : ColumnChoices("dist_")]

StatsOutcomes ==
    {[raised |-> TRUE, msg |-> "stats failed", stats |-> Null],
     [raised |-> FALSE, msg |-> NoExc, stats |-> "stats_payload"]}

CountOutcomes ==
    {[raised |-> TRUE, msg |-> "count failed", count |-> 0]}
        \cup {[raised |-> FALSE, msg |-> NoExc, count |-> c] : c \in 0..1}

-----------------------------------------------------------------------------
(* KnowledgeBridge.search *)

\* `if column:` on a mapping entry that exists
Truthy(col) == col.kind = "seq" /\ Len(col.outer) > 0

\* results[name][0][i] if results[name] else default   (i is 0-based)
SubscriptExc(col, name, i) ==
    IF col.kind = "missing" THEN "'" \o name \o "'"
    ELSE IF Truthy(col) /\ i >= Len(col.outer[1]) THEN "list index out of range"
    ELSE NoExc

\* results[name][0][i] if results.get(name) else default
GetExc(col, i) ==
    IF Truthy(col) /\ i >= Len(col.outer[1]) THEN "list index out of range"
    ELSE NoExc

\* the exception raised while row i is built, fields evaluated in order
RowExc(out, i) ==
    IF SubscriptExc(out.ids, "ids", i) # NoExc
        THEN SubscriptExc(out.ids, "ids", i)
    ELSE IF SubscriptExc(out.metadatas, "metadatas", i) # NoExc
        THEN SubscriptExc(out.metadatas, "metadatas", i)
    ELSE GetExc(out.distances, i)

\* a Row whose placeholder id counts from 1
Row_oneBased(out, i) ==
    [id |-> IF Truthy(out.ids) THEN out.ids.outer[1][i + 1]
            ELSE "result_" \o IntToStr(i + 1),
     content |-> out.documents.outer[1][i + 1],
     metadata |-> IF Truthy(out.metadatas) THEN out.metadatas.outer[1][i + 1]
                  ELSE "{}",
     distance |-> IF Truthy(out.distances) THEN out.distances.outer[1][i + 1]
                  ELSE Null]

Row(out, i) ==
    [id |-> IF Truthy(out.ids) THEN out.ids.outer[1][i + 1]
            ELSE "result_" \o IntToStr(i),
     content |-> out.documents.outer[1][i + 1],
     metadata |-> IF Truthy(out.metadatas) THEN out.metadatas.outer[1][i + 1]
                  ELSE "{}",
     distance |-> IF Truthy(out.distances) THEN out.distances.outer[1][i + 1]
                  ELSE Null]

\* a TotalResults that counts the result sets, not the first set's documents
TotalResults_outer(out) ==
    IF Truthy(out.documents) THEN Len(out.documents.outer) ELSE 0

\* len(results["documents"][0]) if results["documents"] else 0
TotalResults(out) ==
    IF Truthy(out.documents) THEN Len(out.documents.outer[1]) ELSE 0

\* how many rows the loop appends
RowCount(out) ==
    IF Truthy(out.documents) /\ Len(out.documents.outer[1]) > 0
    THEN Len(out.documents.outer[1])
    ELSE 0

\* the exception of the row loop: the one of the first row that raises
RowsExc(out) ==
    IF \E i \in 0..(RowCount(out) - 1) : RowExc(out, i) # NoExc
    THEN RowExc(out, CHOOSE i \in 0..(RowCount(out) - 1) :
                        /\ RowExc(out, i) # NoExc
                        /\ \A j \in 0..(i - 1) : RowExc(out, j) = NoExc)
    ELSE NoExc

\* a SearchExc that indexes the documents without testing them first
SearchExc_unguarded(out) ==
    IF out.raised THEN out.msg
    ELSE IF out.documents.kind = "missing" THEN "'documents'"
    ELSE IF ~Truthy(out.documents) THEN "list index out of range"
    ELSE RowsExc(out)

\* the exception the try block of search raises, or NoExc
SearchExc(out) ==
    IF out.raised THEN out.msg
    ELSE IF out.documents.kind = "missing" THEN "'documents'"
    ELSE RowsExc(out)

\* a search that keeps the rows built before a row raised
search_keepRows(question, n_results, language_filter, out) ==
    IF out.raised \/ out.documents.kind = "missing"
    THEN [success |-> FALSE, error |-> SearchExc(out), question |-> question]
    ELSE LET built == IF RowsExc(out) = NoExc THEN RowCount(out)
                      ELSE CHOOSE i \in 0..(RowCount(out) - 1) :
                              /\ RowExc(out, i) # NoExc
                              /\ \A j \in 0..(i - 1) : RowExc(out, j) = NoExc
         IN  [success |-> TRUE,
              question |-> question,
              total_results |-> TotalResults(out),
              results |-> [j \in 1..built |-> Row(out, j - 1)]]

search(question, n_results, language_filter, out) ==
    IF SearchExc(out) # NoExc
    THEN [success |-> FALSE, error |-> SearchExc(out), question |-> question]
    ELSE [success |-> TRUE,
          question |-> question,
          total_results |-> TotalResults(out),
          results |-> [j \in 1..RowCount(out) |-> Row(out, j - 1)]]

(* KnowledgeBridge.stats *)
stats(out) ==
    IF out.raised
    THEN [success |-> FALSE, error |-> out.msg]
    ELSE [success |-> TRUE, stats |-> out.stats]

\* a health whose failure envelope has the shape of the other operations
health_plain(out) ==
    IF out.raised
    THEN [success |-> FALSE, error |-> out.msg]
    ELSE [success |-> TRUE, status |-> "healthy",
          collection |-> "fshd_knowledge_base", total_chunks |-> out.count]

(* KnowledgeBridge.health *)
health(out) ==
    IF out.raised
    THEN [success |-> FALSE, status |-> "unhealthy", error |-> out.msg]
    ELSE [success |-> TRUE, status |-> "healthy",
          collection |-> "fshd_knowledge_base", total_chunks |-> out.count]

-----------------------------------------------------------------------------
(* Inputs of one run *)

FlagArgs ==
    [stdin : {FALSE}, command : {"search"}, question : Questions \cup {Absent},
     n_results : 0..MaxN, language : Languages]
    \cup
    [stdin : {FALSE}, command : {"stats", "health", Null}, question : {Absent},
     n_results : {DefaultNResults}, language : {Null}]

StdinArgs ==
    [stdin : {TRUE}, command : {Null}, question : {Absent},
     n_results : {DefaultNResults}, language : {Null}]

OptField(key, vals) == {EmptyMap} \cup {key :> v : v \in vals}

Mappings ==
    {c @@ q @@ n @@ l :
        c \in OptField("command", Commands \cup {"bogus"}),
        q \in OptField("question", {"q1"}),
        n \in OptField("n_results", {1}),
        l \in OptField("language", {"zh"})}

StdinInputs ==
    {[kind |-> "malformed", doc |-> EmptyMap],
     [kind |-> "not_mapping", doc |-> EmptyMap]}
        \cup {[kind |-> "mapping", doc |-> m] : m \in Mappings}

\* search -q is required: argparse rejects the arguments without it
ArgsRejected(a) == a.command = "search" /\ a.question = Absent

Init ==
    /\ \/ args \in FlagArgs /\ stdinData = [kind |-> "malformed", doc |-> EmptyMap]
       \/ args \in StdinArgs /\ stdinData \in StdinInputs
    /\ pc = "parse_args"
    /\ ctorCalls = 0
    /\ backendCalls = <<>>
    /\ result = EmptyMap
    /\ stdout = <<>>
    /\ stderr = <<>>
    /\ exitStatus = Running
    /\ crashed = NoExc

-----------------------------------------------------------------------------
(* main() *)

\* The two message prefixes of main(), which the source writes in Chinese
\* ("unknown command: " and "JSON parse error: "), rendered in ASCII.
UnknownCommandPrefix == "unknown command: "
JsonErrorPrefix == "JSON parse error: "

Exit(status) == exitStatus' = status /\ pc' = "done"

\* an exception nothing catches: traceback on standard error, exit status 1
Uncaught(exc) ==
    /\ crashed' = exc
    /\ stderr' = Append(stderr, "traceback")
    /\ Exit(1)

\* parser.parse_args()
ParseArgs ==
    /\ pc = "parse_args"
    /\ IF ArgsRejected(args)
       THEN /\ stderr' = Append(stderr, "usage_error")
            /\ Exit(2)
       ELSE /\ pc' = "construct"
            /\ UNCHANGED <<stderr, exitStatus>>
    /\ UNCHANGED <<args, stdinData, ctorCalls, backendCalls, result, stdout, crashed>>

\* bridge = KnowledgeBridge(), which constructs the backend handle
Construct ==
    /\ pc = "construct"
    /\ ctorCalls' = ctorCalls + 1
    /\ \E ok \in BOOLEAN :
          IF ok
          THEN /\ pc' = "dispatch"
               /\ UNCHANGED <<stderr, exitStatus, crashed>>
          ELSE Uncaught("backend construction failed")
    /\ UNCHANGED <<args, stdinData, backendCalls, result, stdout>>

\* bridge.search(...) against a backend whose outcome is out
CallSearch(question, n_results, language_filter, out) ==
    /\ backendCalls' = Append(backendCalls,
            [op |-> "similarity_search", question |-> question,
             n_results |-> n_results, language_filter |-> language_filter,
             out |-> out])
    /\ result' = search(question, n_results, language_filter, out)

CallStats(out) ==
    /\ backendCalls' = Append(backendCalls, [op |-> "collection_stats", out |-> out])
    /\ result' = stats(out)

\* a CallHealth that asks the backend again after a failure
CallHealth_retry(out) ==
    /\ backendCalls' =
          IF out.raised
          THEN backendCalls \o <<[op |-> "collection_count", out |-> out],
                                 [op |-> "collection_count", out |-> out]>>
          ELSE Append(backendCalls, [op |-> "collection_count", out |-> out])
    /\ result' = health(out)

CallHealth(out) ==
    /\ backendCalls' = Append(backendCalls, [op |-> "collection_count", out |-> out])
    /\ result' = health(out)

Operation(command, question, n_results, language_filter) ==
    \/ /\ command = "search"
       /\ \E out \in SearchOutcomes(n_results) :
             CallSearch(question, n_results, language_filter, out)
    \/ /\ command = "stats"
       /\ \E out \in StatsOutcomes : CallStats(out)
    \/ /\ command = "health"
       /\ \E out \in CountOutcomes : CallHealth(out)

\* if args.stdin: the JSON document on standard input selects the operation
DocumentMode ==
    /\ pc = "dispatch"
    /\ args.stdin
    /\ \/ /\ stdinData.kind = "malformed"
          /\ result' = [success |-> FALSE,
                        error |-> JsonErrorPrefix \o "Expecting value"]
          /\ pc' = "output"
          /\ UNCHANGED <<backendCalls, stderr, exitStatus, crashed>>
       \/ /\ stdinData.kind = "not_mapping"
          /\ Uncaught("AttributeError: no attribute 'get'")
          /\ UNCHANGED <<backendCalls, result>>
       \/ /\ stdinData.kind = "mapping"
          /\ LET input_data == stdinData.doc
                 command == Get(input_data, "command", "search")
             IN  \/ /\ Operation(command,
                                  Get(input_data, "question", ""),
                                  Get(input_data, "n_results", DefaultNResults),
                                  Get(input_data, "language", Null))
                    /\ pc' = "output"
                    /\ UNCHANGED <<stderr, exitStatus, crashed>>
                 \/ /\ command \notin Commands
                    /\ result' = [success |-> FALSE,
                                  error |-> UnknownCommandPrefix \o command]
                    /\ pc' = "output"
                    /\ UNCHANGED <<backendCalls, stderr, exitStatus, crashed>>
    /\ UNCHANGED <<args, stdinData, ctorCalls, stdout>>

\* else: the subcommand selects the operation, or usage help is printed
FlagMode ==
    /\ pc = "dispatch"
    /\ ~args.stdin
    /\ \/ /\ Operation(args.command, args.question, args.n_results, args.language)
          /\ pc' = "output"
          /\ UNCHANGED <<stdout, stderr, exitStatus, crashed>>
       \/ /\ args.command \notin Commands
          /\ stdout' = Append(stdout, [kind |-> "usage", body |-> EmptyMap])
          /\ Exit(1)
          /\ UNCHANGED <<backendCalls, result, stderr, crashed>>
    /\ UNCHANGED <<args, stdinData, ctorCalls>>

\* json.dumps: Python None becomes JSON null, everything else is kept
JsonValue(v) == IF v = Null THEN JsonNull ELSE v

JsonRow(r) ==
    [id |-> r.id, content |-> r.content, metadata |-> JsonValue(r.metadata),
     distance |-> JsonValue(r.distance)]

ToJson(envelope) ==
    IF "results" \in DOMAIN envelope
    THEN [envelope EXCEPT !.results = [j \in 1..Len(@) |-> JsonRow(@[j])]]
    ELSE IF "stats" \in DOMAIN envelope
    THEN [envelope EXCEPT !.stats = JsonValue(@)]
    ELSE envelope

\* print(json.dumps(result, ensure_ascii=False, indent=2)); main returns
Output ==
    /\ pc = "output"
    /\ stdout' = Append(stdout, [kind |-> "json", body |-> ToJson(result)])
    /\ Exit(0)
    /\ UNCHANGED <<args, stdinData, ctorCalls, backendCalls, result, stderr, crashed>>

Next == ParseArgs \/ Construct \/ DocumentMode \/ FlagMode \/ Output

Spec == Init /\ [][Next]_vars

-----------------------------------------------------------------------------
(* State functions the properties are written with *)

Done == pc = "done"

\* flag mode with no recognized subcommand
UsageCase == ~args.stdin /\ args.command \notin Commands

\* the operation the run treats as requested, or Null
SelectedCommand ==
    IF ~args.stdin THEN args.command
    ELSE IF stdinData.kind = "mapping" THEN Get(stdinData.doc, "command", "search")
    ELSE Null

\* the question the caller gave
OriginalQuestion ==
    IF args.stdin THEN Get(stdinData.doc, "question", "") ELSE args.question

RequestedCount ==
    IF args.stdin THEN Get(stdinData.doc, "n_results", DefaultNResults)
    ELSE args.n_results

Called(op) == backendCalls # <<>> /\ backendCalls[1].op = op

TheOutcome == backendCalls[1].out

UsagePrinted == \E k \in DOMAIN stdout : stdout[k].kind = "usage"

JsonPrinted == \E k \in DOMAIN stdout : stdout[k].kind = "json"

\* standard output holds exactly one JSON envelope with a boolean success field
OneEnvelope ==
    /\ Len(stdout) = 1
    /\ stdout[1].kind = "json"
    /\ "success" \in DOMAIN stdout[1].body
    /\ stdout[1].body.success \in BOOLEAN

\* column col has an entry at 0-based index i
HasEntry(col, i) ==
    col.kind = "seq" /\ Len(col.outer) >= 1 /\ i < Len(col.outer[1])

\* the documents the backend returned for the query
ReturnedDocuments(out) ==
    IF HasEntry(out.documents, 0) THEN out.documents.outer[1] ELSE <<>>

\* ids, metadatas or distances is present but shorter than documents
Ragged(out) ==
    /\ ~out.raised
    /\ \E col \in {out.ids, out.metadatas, out.distances} :
          /\ col.kind = "seq" /\ Len(col.outer) >= 1
          /\ Len(col.outer[1]) < Len(ReturnedDocuments(out))

\* the backend returned zero matches: documents is None, empty, or its first
\* result set is empty
ZeroMatches(out) ==
    /\ ~out.raised
    /\ \/ out.documents.kind = "none"
       \/ out.documents.kind = "seq" /\ Len(ReturnedDocuments(out)) = 0

-----------------------------------------------------------------------------
(* C1 *)

\* C1: every run other than flag mode with no recognized subcommand writes
\* exactly one JSON envelope with a boolean success field to standard output
\* and exits with status zero, and no exception terminates the process.  (Runs
\* whose arguments argparse rejects are left out here, in the claim's favour.)
C1_OneEnvelopeExitZero ==
    (Done /\ ~UsageCase /\ ~ArgsRejected(args))
        => (crashed = NoExc /\ exitStatus = 0 /\ OneEnvelope)

-----------------------------------------------------------------------------
(* C2 *)

\* C2: when the backend similarity search raises, or its output is ragged
\* (ids, metadatas or distances present but shorter than documents), search
\* returns a failure envelope with success = FALSE, an error string and the
\* original question, and never a success envelope with part of the rows.
C2_SearchFailureEnvelope ==
    Called("similarity_search") =>
        /\ (TheOutcome.raised \/ Ragged(TheOutcome)) =>
              /\ DOMAIN result = {"success", "error", "question"}
              /\ result.success = FALSE
              /\ result.error # NoExc
              /\ result.question = OriginalQuestion
        /\ result.success = TRUE =>
              Len(result.results) = Len(ReturnedDocuments(TheOutcome))

C2_Witness ==
    /\ Done
    /\ Called("similarity_search")
    /\ Ragged(TheOutcome)
    /\ Len(ReturnedDocuments(TheOutcome)) = 2
    /\ HasEntry(TheOutcome.ids, 0) /\ ~HasEntry(TheOutcome.ids, 1)
    /\ result.success = FALSE
    /\ OneEnvelope

-----------------------------------------------------------------------------
(* C3 *)

\* C3: a valid search (result count at least 1) that returns success = TRUE
\* has total_results equal to the length of results, and results no longer
\* than the requested result count.
C3_TotalMatchesResults ==
    (Called("similarity_search") /\ RequestedCount >= 1 /\ result.success = TRUE) =>
        /\ result.total_results = Len(result.results)
        /\ Len(result.results) <= RequestedCount

C3_Witness ==
    /\ Called("similarity_search")
    /\ RequestedCount = 2
    /\ result.success = TRUE
    /\ Len(result.results) = 2
    /\ result.total_results = 2

-----------------------------------------------------------------------------
(* C4 *)

\* C4: when the backend returns zero matches, search returns success = TRUE
\* with results = <<>> and total_results = 0, not a failure envelope.
C4_EmptyIsSuccess ==
    (Called("similarity_search") /\ ZeroMatches(TheOutcome)) =>
        result = [success |-> TRUE, question |-> OriginalQuestion,
                  total_results |-> 0, results |-> <<>>]

C4_Witness ==
    /\ Called("similarity_search")
    /\ TheOutcome.documents.kind = "none"
    /\ TheOutcome.ids.kind = "missing"
    /\ result.success = TRUE
    /\ result.total_results = 0
    /\ Done

-----------------------------------------------------------------------------
(* C5 *)

\* C5: in a successful search the item at each 0-based index i has the four
\* fields id, content, metadata and distance: id is the backend id at i, or
\* result_<i> when there is no id entry at i; content is the document at i;
\* metadata is the backend metadata at i, or {} when there is none; distance
\* is the backend distance at i, or null (present) when there is none.  The
\* items are in the backend's order, one per document.
C5_RowFields ==
    (Called("similarity_search") /\ result.success = TRUE) =>
        LET out == TheOutcome
            docs == ReturnedDocuments(out)
        IN  /\ Len(result.results) = Len(docs)
            /\ \A i \in 0..(Len(docs) - 1) :
                  LET item == result.results[i + 1]
                  IN  /\ DOMAIN item = {"id", "content", "metadata", "distance"}
                      /\ item.content = docs[i + 1]
                      /\ item.id = IF HasEntry(out.ids, i)
                                   THEN out.ids.outer[1][i + 1]
                                   ELSE "result_" \o IntToStr(i)
                      /\ item.metadata = IF HasEntry(out.metadatas, i)
                                         THEN out.metadatas.outer[1][i + 1]
                                         ELSE "{}"
                      /\ item.distance = IF HasEntry(out.distances, i)
                                         THEN out.distances.outer[1][i + 1]
                                         ELSE Null
            /\ Done =>
                  \A i \in 0..(Len(docs) - 1) :
                      /\ "distance" \in DOMAIN stdout[1].body.results[i + 1]
                      /\ ~HasEntry(out.distances, i) =>
                            stdout[1].body.results[i + 1].distance = JsonNull

C5_Witness ==
    /\ Done
    /\ Called("similarity_search")
    /\ result.success = TRUE
    /\ Len(result.results) = 2
    /\ TheOutcome.ids.kind = "none"
    /\ TheOutcome.distances.kind = "missing"
    /\ HasEntry(TheOutcome.metadatas, 1)
    /\ result.results[2].id = "result_1"
    /\ result.results[1].content # result.results[2].content

-----------------------------------------------------------------------------
(* C6 *)

\* C6: in document mode, whenever standard input is not well-formed JSON, the
\* process emits the failure envelope {success: false, error: <parse error>},
\* invokes no backend operation, prints no usage help and exits with status 0.
C6_MalformedJsonEnvelope ==
    (Done /\ args.stdin /\ stdinData.kind = "malformed") =>
        /\ OneEnvelope
        /\ DOMAIN stdout[1].body = {"success", "error"}
        /\ stdout[1].body.success = FALSE
        /\ backendCalls = <<>>
        /\ ~UsagePrinted
        /\ exitStatus = 0

\* What the code does guarantee: the same, for the runs in which the
\* construction of the bridge did not raise.
C6_AfterConstruction ==
    (Done /\ crashed = NoExc /\ args.stdin /\ stdinData.kind = "malformed") =>
        /\ OneEnvelope
        /\ DOMAIN stdout[1].body = {"success", "error"}
        /\ stdout[1].body.success = FALSE
        /\ backendCalls = <<>>
        /\ ~UsagePrinted
        /\ exitStatus = 0

-----------------------------------------------------------------------------
(* C7 *)

\* C7: in document mode, a mapping whose command is none of search, stats,
\* health yields the failure envelope {success: false, error: "unknown
\* command: <value>"} without a backend operation; a mapping without a command
\* is handled as a search.
C7_UnknownCommandEnvelope ==
    (Done /\ args.stdin /\ stdinData.kind = "mapping") =>
        /\ SelectedCommand \notin Commands =>
              /\ OneEnvelope
              /\ stdout[1].body = [success |-> FALSE,
                                   error |-> UnknownCommandPrefix \o SelectedCommand]
              /\ backendCalls = <<>>
        /\ "command" \notin DOMAIN stdinData.doc =>
              /\ Called("similarity_search")
              /\ OneEnvelope
              /\ "question" \in DOMAIN stdout[1].body

C7_AfterConstruction ==
    (Done /\ crashed = NoExc /\ args.stdin /\ stdinData.kind = "mapping") =>
        /\ SelectedCommand \notin Commands =>
              /\ OneEnvelope
              /\ stdout[1].body = [success |-> FALSE,
                                   error |-> UnknownCommandPrefix \o SelectedCommand]
              /\ backendCalls = <<>>
        /\ "command" \notin DOMAIN stdinData.doc =>
              /\ Called("similarity_search")
              /\ OneEnvelope
              /\ "question" \in DOMAIN stdout[1].body

-----------------------------------------------------------------------------
(* C8 *)

\* C8: when the backend count call raises, health yields exactly {success:
\* false, status: "unhealthy", error: <description>}; when it succeeds, health
\* yields success = TRUE with status "healthy" and the count; and the failure
\* envelope of an operation has a status field iff the operation is health.
C8_HealthEnvelope ==
    /\ Called("collection_count") =>
          IF TheOutcome.raised
          THEN result = [success |-> FALSE, status |-> "unhealthy",
                         error |-> TheOutcome.msg]
          ELSE /\ result.success = TRUE
               /\ result.status = "healthy"
               /\ result.total_chunks = TheOutcome.count
    /\ (backendCalls # <<>> /\ result.success = FALSE) =>
          ("status" \in DOMAIN result <=> Called("collection_count"))
    /\ (backendCalls # <<>> /\ Done) => stdout[1].body = ToJson(result)

C8_Witness ==
    /\ Done
    /\ Called("collection_count")
    /\ TheOutcome.raised
    /\ OneEnvelope
    /\ stdout[1].body.status = "unhealthy"
    /\ exitStatus = 0

-----------------------------------------------------------------------------
(* C9 *)

\* C9: flag mode with no subcommand and without --stdin prints usage
\* information and exits with non-zero status, with no JSON on standard
\* output and no backend operation; no run prints both usage and JSON.
C9_UsageOnly ==
    /\ (Done /\ UsageCase) =>
          /\ UsagePrinted
          /\ exitStatus # 0
          /\ ~JsonPrinted
          /\ backendCalls = <<>>
    /\ ~(UsagePrinted /\ JsonPrinted)

C9_AfterConstruction ==
    /\ (Done /\ crashed = NoExc /\ UsageCase) =>
          /\ UsagePrinted
          /\ exitStatus # 0
          /\ ~JsonPrinted
          /\ backendCalls = <<>>
    /\ (Done /\ UsageCase) => (exitStatus # 0 /\ ~JsonPrinted /\ backendCalls = <<>>)
    /\ ~(UsagePrinted /\ JsonPrinted)

-----------------------------------------------------------------------------
(* C10 *)

\* C10: in every process run the backend handle is constructed once and used
\* for exactly one backend operation before the process exits; a failed
\* operation is not invoked again and its caught failure ends the invocation.
C10_ExactlyOneOperation ==
    /\ Done => (ctorCalls = 1 /\ Len(backendCalls) = 1)
    /\ Len(backendCalls) <= 1

\* C10, amended: the handle is constructed at most once and used for at most
\* one backend operation: exactly one of each when the run gets to dispatch
\* search, stats or health, none when it ends before (usage help, rejected
\* arguments, a failed construction, malformed or non-mapping JSON, an unknown
\* command).  A failed operation is not invoked again: its failure envelope
\* is what the run prints, with exit status 0.
C10_AtMostOneOperation ==
    /\ ctorCalls <= 1
    /\ Len(backendCalls) <= 1
    /\ Len(backendCalls) = 1 => ctorCalls = 1
    /\ Done =>
          /\ Len(backendCalls) = 1
                <=> (crashed = NoExc /\ ~ArgsRejected(args)
                        /\ SelectedCommand \in Commands)
          /\ (backendCalls # <<>> /\ TheOutcome.raised) =>
                /\ result.success = FALSE
                /\ stdout = <<[kind |-> "json", body |-> result]>>
                /\ exitStatus = 0

C10_Witness ==
    /\ Done
    /\ ctorCalls = 1
    /\ Len(backendCalls) = 1
    /\ TheOutcome.raised
    /\ OneEnvelope
    /\ stdout[1].body.success = FALSE

====
